---- MODULE Spec2Model ----
(***************************************************************************)
(* State-machine model of src/main.ino (M5StickC Plus stock watcher):     *)
(* setup(), the loop() tick with its refresh decision, drawScreen(),      *)
(* fetchQNH(), getStockPrice() and the two draw routines.                  *)
(*                                                                         *)
(* Units.  Times are uint32_t milliseconds, kept as two 16-bit limbs      *)
(* <<hi, lo>> so that the 32-bit wrap of the source is exact.  A float is *)
(* a record [k, v, ref]: k = "num" with v in hundredths of the unit,      *)
(* k = "nan", k = "-inf", or k = "alt" (the barometric formula applied to *)
(* pressure v and reference ref, left uninterpreted).                     *)
(***************************************************************************)
EXTENDS Integers, Sequences, FiniteSets, TLC

VARIABLES
    pc,               \* "setup" | "halted" | "loop" | "drawScreen" | "drawClock"
    hardwareStarted,  \* bool hardwareStarted
    found,            \* what qmp.begin() and sht30.begin() returned in initENV
    millis,           \* the uptime counter millis() at the current point
    now,              \* loop()'s local `now` of the latest tick
    lastDraw,         \* uint32_t lastDraw
    settingStock,     \* bool settingStock (FALSE: NVDA, TRUE: ASTS)
    stock,            \* Stock stock
    doc,              \* StaticJsonDocument doc (what it holds after the last parse)
    btnA, btnB,       \* physical level of the two buttons (TRUE: pressed)
    m5A, m5B,         \* level M5.update() sampled last (Button_Class state)
    topBar,           \* what drawTopBar drew last
    mainArea,         \* what drawClockAndDate drew last
    metar,            \* the response the latest fetchQNH call met
    seaLevel,         \* the float the latest fetchQNH call returned
    tick,             \* history: the latest tick's inputs and decision
    fetch,            \* history: the latest getStockPrice call
    cycle,            \* history: what the running/latest refresh cycle did
    pressA,           \* history: button A's current physical press
    ticks,            \* history: number of ticks executed
    sinceRefresh      \* history: true milliseconds since the latest refresh tick

vars == <<pc, hardwareStarted, found, millis, now, lastDraw, settingStock, stock, doc,
          btnA, btnB, m5A, m5B, topBar, mainArea, metar, seaLevel,
          tick, fetch, cycle, pressA, ticks, sinceRefresh>>

(***************************************************************************)
(* Bounds of the model.                                                    *)
(***************************************************************************)
MaxTicks == 3          \* ticks of loop() explored
MaxQuoteId == 2        \* distinct quote documents the server may return
MaxBodyLen == 7        \* longest METAR body of the exhaustive fetchQNH check

(***************************************************************************)
(* uint32_t arithmetic on <<hi, lo>>, 16 bits each.                        *)
(***************************************************************************)
W16 == 2^16

U32(n) == <<(n \div W16) % W16, n % W16>>

Add32(a, b) ==
    LET lo == a[2] + b[2]
        hi == a[1] + b[1] + (lo \div W16)
    IN  <<hi % W16, lo % W16>>

Sub32(a, b) ==
    LET lo == a[2] - b[2]
        borrow == IF lo < 0 THEN 1 ELSE 0
        hi == a[1] - b[1] - borrow
    IN  <<(hi + W16) % W16, (lo + W16) % W16>>

Neg32(a) == Sub32(<<0, 0>>, a)

Ge32(a, b) == a[1] > b[1] \/ (a[1] = b[1] /\ a[2] >= b[2])

(***************************************************************************)
(* Program constants.                                                      *)
(***************************************************************************)
DRAW_INTERVAL_MS == U32(45 * 1000)
SEA_LEVEL_HPA == 101325            \* 1013.25f, in hundredths of hPa
HTTP_CODE_OK == 200
IdleDelayMs == 100                 \* delay(100) of a tick that does not refresh
BEEP_NOTE_A == 661
BEEP_NOTE_B == 112

F(v) == [k |-> "num", v |-> v, ref |-> 0]
NAN == [k |-> "nan", v |-> 0, ref |-> 0]
NegInf == [k |-> "-inf", v |-> 0, ref |-> 0]
isnan(x) == x.k = "nan"

(***************************************************************************)
(* Arduino String, as fetchQNH uses it.  A String is a sequence of         *)
(* one-character strings; indices are 0-based as in the source.            *)
(***************************************************************************)
Digits == <<"0", "1", "2", "3", "4", "5", "6", "7", "8", "9">>
IsDigit(c) == \E i \in 1..10 : Digits[i] = c
DigitVal(c) == (CHOOSE i \in 1..10 : Digits[i] = c) - 1
IsSpace(c) == c \in {" ", "\n"}

\* String::indexOf(pat): the first index at which pat occurs, or -1.
IndexOf(s, pat) ==
    LET hits == {i \in 0..(Len(s) - Len(pat)) :
                    \A j \in 1..Len(pat) : s[i + j] = pat[j]}
    IN  IF hits = {} THEN -1 ELSE CHOOSE i \in hits : \A h \in hits : i <= h

\* String::substring(left, right): [left, right), clipped to the length.
Substring(s, left, right) ==
    LET l == IF left > right THEN right ELSE left
        r0 == IF left > right THEN left ELSE right
        r == IF r0 > Len(s) THEN Len(s) ELSE r0
    IN  IF l >= Len(s) THEN <<>> ELSE SubSeq(s, l + 1, r)

RECURSIVE SkipSpace(_)
SkipSpace(s) ==
    IF s # <<>> /\ IsSpace(Head(s)) THEN SkipSpace(Tail(s)) ELSE s

RECURSIVE DigitsValue(_, _)
DigitsValue(s, acc) ==
    IF s # <<>> /\ IsDigit(Head(s))
    THEN DigitsValue(Tail(s), 10 * acc + DigitVal(Head(s)))
    ELSE acc

\* String::toFloat (atof): leading white space is skipped, the longest
\* run of digits is converted, 0 when there is none.  The bodies of this
\* model hold no sign, point or exponent characters.
ToFloat(s) == F(100 * DigitsValue(SkipSpace(s), 0))

(***************************************************************************)
(* fetchQNH.  r = [wifi, code, body]: WiFi.status() == WL_CONNECTED, the   *)
(* result of http.GET(), and the payload.                                  *)
(***************************************************************************)
QnhStart(idx) == idx > 0

fetchQNH(r) ==
    IF ~r.wifi THEN F(SEA_LEVEL_HPA)
    ELSE IF r.code > 0 /\ r.code = HTTP_CODE_OK
    THEN LET i1 == IndexOf(r.body, <<" ", "Q">>)
             idx == IF i1 = -1 THEN IndexOf(r.body, <<"\n", "Q">>) ELSE i1
         IN  IF QnhStart(idx)
             THEN ToFloat(Substring(r.body, idx + 2, idx + 6))
             ELSE F(SEA_LEVEL_HPA)
    ELSE F(SEA_LEVEL_HPA)

(***************************************************************************)
(* The quote feed.  A JSON variant is [null, v] (number) or [null, s]      *)
(* (string); a symbol's entry holds the six fields read by getStockPrice;  *)
(* a document maps each symbol to its entry (present = FALSE: no such      *)
(* key, every field null).                                                 *)
(***************************************************************************)
Symbols == {"NVDA", "ASTS"}
SymbolOf(setting) == IF setting THEN "ASTS" ELSE "NVDA"

Num(v) == [null |-> FALSE, v |-> v]
NullNum == [null |-> TRUE, v |-> 0]
Str(s) == [null |-> FALSE, s |-> s]
NullStr == [null |-> TRUE, s |-> ""]

NullEntry ==
    [present |-> FALSE, last |-> NullNum, bid |-> NullNum, ask |-> NullNum,
     volume |-> NullNum, deltaIndicator |-> NullStr, lastTradeTime |-> NullStr]

EmptyDoc == [s \in Symbols |-> NullEntry]

TradeTimes == <<"09:30", "09:31", "09:32", "09:33", "09:34">>

\* The k-th quote of symbol sym: every field differs from that of any
\* other (k, sym), prices in hundredths.
QuoteEntry(k, sym) ==
    LET base == 10000 * k + (IF sym = "ASTS" THEN 5000 ELSE 0)
    IN  [present |-> TRUE, last |-> Num(base), bid |-> Num(base - 5),
         ask |-> Num(base + 5), volume |-> Num(base * 10),
         deltaIndicator |-> Str(IF k % 2 = 1 THEN "up" ELSE "down"),
         lastTradeTime |-> Str(TradeTimes[k] \o (IF sym = "ASTS" THEN "a" ELSE "n"))]

DocFull(k) == [s \in Symbols |-> QuoteEntry(k, s)]
\* A document whose entries lack bid, ask and volume and carry a
\* deltaIndicator that is neither "up" nor "down".
DocSparse(k) ==
    [s \in Symbols |-> [NullEntry EXCEPT !.present = TRUE,
                                         !.last = QuoteEntry(k, s).last,
                                         !.deltaIndicator = Str("unchanged"),
                                         !.lastTradeTime = QuoteEntry(k, s).lastTradeTime]]

\* A response body: kind "malformed" (deserializeJson fails), "array" (valid
\* JSON that is no object) or "object".
Payloads ==
    {[kind |-> "malformed", d |-> EmptyDoc], [kind |-> "array", d |-> EmptyDoc],
     [kind |-> "object", d |-> EmptyDoc]}
    \cup {[kind |-> "object", d |-> DocFull(k)] : k \in 1..MaxQuoteId}
    \cup {[kind |-> "object", d |-> DocSparse(1)]}

\* What fetchPayloadFromInternet meets: WiFi.status(), http.begin(),
\* http.GET() and the body.
QuoteResponses ==
    {[wifi |-> FALSE, begin |-> TRUE, code |-> 0, payload |-> [kind |-> "malformed", d |-> EmptyDoc]],
     [wifi |-> TRUE, begin |-> FALSE, code |-> 0, payload |-> [kind |-> "malformed", d |-> EmptyDoc]],
     [wifi |-> TRUE, begin |-> TRUE, code |-> 500, payload |-> [kind |-> "object", d |-> DocFull(1)]]}
    \cup {[wifi |-> TRUE, begin |-> TRUE, code |-> HTTP_CODE_OK, payload |-> p] : p \in Payloads}

\* Where a response makes fetchPayloadFromInternet return.
Outcome(r) ==
    IF ~r.wifi THEN "wifi"
    ELSE IF ~r.begin THEN "begin"
    ELSE IF r.code # HTTP_CODE_OK THEN "http"
    ELSE IF r.payload.kind = "malformed" THEN "parse" ELSE "ok"

\* JsonVariant::as<float>() / as<double>(): 0 for null.
AsFloat(x) == IF x.null THEN F(0) ELSE F(x.v)
\* JsonVariant::as<String>(): the text "null" for null.
AsString(x) == IF x.null THEN "null" ELSE x.s

\* Stock::Set
StockSet(symbol_val) ==
    [symbol |-> symbol_val, last |-> NAN, bid |-> NAN, ask |-> NAN,
     volume |-> NAN, lastTradeTime |-> "", deltaIndicator |-> ""]

\* parsePayload: doc.clear(), deserializeJson; [ok, doc].
parsePayload(payload) ==
    IF payload.kind = "malformed"
    THEN [ok |-> FALSE, doc |-> EmptyDoc]
    ELSE [ok |-> TRUE, doc |-> payload.d]

\* fetchPayloadFromInternet on global document d; [ok, doc].
fetchPayloadFromInternet(d, r) ==
    IF ~r.wifi THEN [ok |-> FALSE, doc |-> d]
    ELSE IF ~r.begin THEN [ok |-> FALSE, doc |-> d]
    ELSE IF r.code # HTTP_CODE_OK THEN [ok |-> FALSE, doc |-> d]
    ELSE parsePayload(r.payload)

\* Mutant of getStockPrice: stock.Set(symbol) runs before the fetch.
getStockPriceResetFirst(stk, d, symbol, r) ==
    LET f == fetchPayloadFromInternet(d, r)
        e == f.doc[symbol]
    IN  IF f.ok
        THEN [ok |-> TRUE, doc |-> f.doc,
              stock |-> [StockSet(symbol) EXCEPT
                            !.last = AsFloat(e.last),
                            !.bid = AsFloat(e.bid),
                            !.ask = AsFloat(e.ask),
                            !.volume = AsFloat(e.volume),
                            !.deltaIndicator = AsString(e.deltaIndicator),
                            !.lastTradeTime = AsString(e.lastTradeTime)]]
        ELSE [ok |-> FALSE, doc |-> f.doc, stock |-> StockSet(symbol)]

\* Mutant of getStockPrice: the fields are stored without stock.Set(symbol).
getStockPriceNoSet(stk, d, symbol, r) ==
    LET f == fetchPayloadFromInternet(d, r)
        e == f.doc[symbol]
    IN  IF f.ok
        THEN [ok |-> TRUE, doc |-> f.doc,
              stock |-> [stk EXCEPT
                            !.last = AsFloat(e.last),
                            !.bid = AsFloat(e.bid),
                            !.ask = AsFloat(e.ask),
                            !.volume = AsFloat(e.volume),
                            !.deltaIndicator = AsString(e.deltaIndicator),
                            !.lastTradeTime = AsString(e.lastTradeTime)]]
        ELSE [ok |-> FALSE, doc |-> f.doc, stock |-> stk]

\* getStockPrice(symbol) on stock stk and document d; [ok, stock, doc].
getStockPrice(stk, d, symbol, r) ==
    LET f == fetchPayloadFromInternet(d, r)
        e == f.doc[symbol]
    IN  IF f.ok
        THEN [ok |-> TRUE, doc |-> f.doc,
              stock |-> [StockSet(symbol) EXCEPT
                            !.last = AsFloat(e.last),
                            !.bid = AsFloat(e.bid),
                            !.ask = AsFloat(e.ask),
                            !.volume = AsFloat(e.volume),
                            !.deltaIndicator = AsString(e.deltaIndicator),
                            !.lastTradeTime = AsString(e.lastTradeTime)]]
        ELSE [ok |-> FALSE, doc |-> f.doc, stock |-> stk]

(***************************************************************************)
(* Rendering.  A drawn text is [t, v, ref, dp]: t = "--" (placeholder),    *)
(* "num" (v printed with dp decimals), "nan", "-inf", "alt" or "" (nothing *)
(* drawn yet).                                                             *)
(***************************************************************************)
Text(t, v, ref, dp) == [t |-> t, v |-> v, ref |-> ref, dp |-> dp]
Placeholder == Text("--", 0, 0, 0)
NoText == Text("", 0, 0, 0)

\* v (hundredths, v >= 0) rounded to dp decimals.
RoundTo(v, dp) ==
    LET unit == 10 ^ (2 - dp) IN ((v + (unit \div 2)) \div unit) * unit

\* String(x, dp) and printf("%.<dp>f", x): a NaN prints as "nan".
FormatFloat(x, dp) ==
    IF x.k = "num" THEN Text("num", RoundTo(x.v, dp), 0, dp)
    ELSE Text(x.k, x.v, x.ref, dp)

\* isnan(x) ? "--" : String(x, dp)
TopField(x, dp) == IF isnan(x) THEN Placeholder ELSE FormatFloat(x, dp)

\* drawTopBar (the battery level, a device capability, is left out).
drawTopBar(tempC, hum, pressure, altitude) ==
    [temp |-> TopField(tempC, 1), hum |-> TopField(hum, 0),
     press |-> TopField(pressure, 1), alt |-> TopField(altitude, 0)]

\* snprintf("%.2f", x): no isnan test in drawClockAndDate.
MainField(x) == FormatFloat(x, 2)

\* snprintf("%s", symbol) is handed a String object, not a char*: what is
\* printed depends on the build (the object's first bytes are the text
\* only when the String keeps it inline).
Garbage == "?"
LabelOutcomes(symbol) == {symbol, Garbage}

\* Mutant of DeltaColor: red is tested for, green is the default.
DeltaColorByDown(delta) == IF delta = "down" THEN "RED" ELSE "GREEN"

\* if (stock.deltaIndicator == "up") TFT_GREEN else TFT_RED
DeltaColor(delta) == IF delta = "up" THEN "GREEN" ELSE "RED"

\* The texts drawClockAndDate draws from stock stk (the clock line, from
\* the wall clock, is left out).
drawMain(label, stk) ==
    [label |-> label, last |-> MainField(stk.last), bid |-> MainField(stk.bid),
     ask |-> MainField(stk.ask), color |-> DeltaColor(stk.deltaIndicator)]

\* 44330 * (1 - pow(p / sea, 1 / 5.255)): p / 0 is +inf and the result -inf.
Altitude(p, sea) ==
    IF sea.v = 0 THEN NegInf ELSE [k |-> "alt", v |-> p.v, ref |-> sea.v]

(***************************************************************************)
(* The environment's choices.  Each action takes the set its inputs are    *)
(* drawn from, so that a specification can explore the program under a     *)
(* narrower or a wider environment.                                        *)
(***************************************************************************)
\* millis() when loop() first runs.  The blocking library calls of setup()
\* have no bound in the source; the last three values lie within
\* DRAW_INTERVAL_MS of the 32-bit wrap.
BootNormal == U32(3000)
BootTimes ==
    {BootNormal, Sub32(Neg32(DRAW_INTERVAL_MS), U32(1)), Neg32(DRAW_INTERVAL_MS),
     Neg32(U32(1))}

\* Milliseconds between two readings of millis().
Deltas == {0, 1, 44899}
CoarseDeltas == {0, 45000}

\* sht30.update(): cTemp 21.46 C, humidity 40.50 %.
ShtOutcomes == {[ok |-> FALSE, t |-> 0, h |-> 0], [ok |-> TRUE, t |-> 2146, h |-> 4050]}
\* qmp.update() and calcPressure() in Pa.
QmpOutcomes == {[ok |-> FALSE, pa |-> 0], [ok |-> TRUE, pa |-> 0], [ok |-> TRUE, pa |-> 90000]}

MetarOk == <<"E", "D", "D", "B", " ", "Q", "1", "0", "1", "9", " ", "N", "O", "S", "I", "G", "=">>
MetarNoQ == <<"E", "D", "D", "B", " ", "A", "2", "9", "9", "2">>
MetarQfe == <<"E", "D", "D", "B", " ", "Q", "F", "E">>
NoMetar == [wifi |-> FALSE, code |-> 0, body |-> <<>>]
MetarResponses ==
    {NoMetar, [wifi |-> TRUE, code |-> 404, body |-> MetarOk]}
    \cup {[wifi |-> TRUE, code |-> HTTP_CODE_OK, body |-> b] : b \in {MetarOk, MetarNoQ, MetarQfe}}

Unset == [k |-> "unset", v |-> 0, ref |-> 0]
WifiDown == [wifi |-> FALSE, begin |-> TRUE, code |-> 0,
             payload |-> [kind |-> "malformed", d |-> EmptyDoc]]
NoFetch == [ok |-> FALSE, symbol |-> "", why |-> "none", kind |-> "", present |-> FALSE]
NoTick == [elapsed |-> <<0, 0>>, a |-> FALSE, b |-> FALSE, refresh |-> FALSE, since |-> -1,
           from |-> "NVDA", tones |-> {}]
NoSample == [ok |-> FALSE, pa |-> 0]
NoCycle == [qnh |-> FALSE, top |-> FALSE, quote |-> FALSE, main |-> FALSE, qmp |-> NoSample]
NoPress == [toggles |-> 0, first |-> "none"]
NotBegun == [qmp |-> FALSE, sht |-> FALSE]

(***************************************************************************)
(* Initial state: the globals as constructed, before setup().              *)
(***************************************************************************)
\* Mutant of InitLastDraw: lastDraw starts at 0.
InitLastDrawZero == <<0, 0>>

\* uint32_t lastDraw = -DRAW_INTERVAL_MS
InitLastDraw == Neg32(DRAW_INTERVAL_MS)

Init ==
    /\ pc = "setup"
    /\ hardwareStarted = FALSE
    /\ found = NotBegun
    /\ millis = <<0, 0>>
    /\ now = <<0, 0>>
    /\ lastDraw = InitLastDraw
    /\ settingStock = FALSE
    /\ stock = StockSet("")
    /\ doc = EmptyDoc
    /\ btnA = FALSE /\ btnB = FALSE
    /\ m5A = FALSE /\ m5B = FALSE
    /\ topBar = [temp |-> NoText, hum |-> NoText, press |-> NoText, alt |-> NoText]
    /\ mainArea = [label |-> "", last |-> NoText, bid |-> NoText, ask |-> NoText, color |-> ""]
    /\ metar = NoMetar
    /\ seaLevel = Unset
    /\ tick = NoTick
    /\ fetch = NoFetch
    /\ cycle = NoCycle
    /\ pressA = NoPress
    /\ ticks = 0
    /\ sinceRefresh = -1

(***************************************************************************)
(* setup(): initENV never returns when a sensor is missing.                *)
(***************************************************************************)
\* Mutant of initENV: a missing sensor is reported and initENV returns (to
\* setup(), which does not test the result).
initENVReturns(qmpFound, shtFound) == TRUE

initENV(qmpFound, shtFound) == IF ~qmpFound THEN FALSE ELSE shtFound

SetupAt(boots) ==
    /\ pc = "setup"
    /\ \E qmpFound \in BOOLEAN, shtFound \in BOOLEAN, t \in boots :
          /\ millis' = t
          /\ found' = [qmp |-> qmpFound, sht |-> qmpFound /\ shtFound]
          /\ IF initENV(qmpFound, shtFound)
             THEN hardwareStarted' = TRUE /\ pc' = "loop"
             ELSE hardwareStarted' = FALSE /\ pc' = "halted"
    /\ UNCHANGED <<now, lastDraw, settingStock, stock, doc, btnA, btnB, m5A, m5B,
                   topBar, mainArea, metar, seaLevel, tick, fetch, cycle, pressA,
                   ticks, sinceRefresh>>

(***************************************************************************)
(* loop(): one tick up to the refresh decision.                            *)
(***************************************************************************)
\* Mutant of wasPressed: the level (isPressed) instead of the edge.
wasPressedLevel(old, level) == level

\* Button_Class::wasPressed after M5.update(): pressed now, released at the
\* previous update.
wasPressed(old, level) == level /\ ~old

\* Mutant of RefreshDue: > for >=.
RefreshDueStrict(n, last) ==
    LET e == Sub32(n, last)
    IN  Ge32(e, DRAW_INTERVAL_MS) /\ e # DRAW_INTERVAL_MS

\* Mutant of RefreshDue: now >= lastDraw + DRAW_INTERVAL_MS.
RefreshDueNoWrap(n, last) == Ge32(n, Add32(last, DRAW_INTERVAL_MS))

\* now - lastDraw >= DRAW_INTERVAL_MS, in uint32_t
RefreshDue(n, last) == Ge32(Sub32(n, last), DRAW_INTERVAL_MS)

\* Mutant of Toggle: the selection is left as it was.
ToggleKept(setting) == setting

\* settingStock = !settingStock
Toggle(setting) == ~setting

\* Mutant of StampLastDraw: the time stamp is not taken.
StampLastDrawStale(n, last) == last

\* lastDraw = now
StampLastDraw(n, last) == n

LoopPollAt(deltas) ==
    /\ pc = "loop"
    /\ hardwareStarted
    /\ ticks < MaxTicks
    /\ \E d \in deltas :
          LET n == Add32(millis, U32(d))
              edgeA == wasPressed(m5A, btnA)
              edgeB == wasPressed(m5B, btnB)
              refreshData == RefreshDue(n, lastDraw) \/ edgeA \/ edgeB
              since == IF sinceRefresh < 0 THEN -1 ELSE sinceRefresh + d
              setting == IF edgeA THEN Toggle(settingStock) ELSE settingStock
          IN  /\ now' = n
              /\ m5A' = btnA
              /\ m5B' = btnB
              /\ settingStock' = setting
              /\ tick' = [elapsed |-> Sub32(n, lastDraw), a |-> edgeA, b |-> edgeB,
                          refresh |-> refreshData, since |-> since,
                          from |-> SymbolOf(settingStock),
                          tones |-> (IF edgeA THEN {BEEP_NOTE_A} ELSE {})
                                    \cup (IF edgeB THEN {BEEP_NOTE_B} ELSE {})]
              /\ pressA' = IF btnA
                           THEN [toggles |-> pressA.toggles
                                                + (IF setting # settingStock THEN 1 ELSE 0),
                                 first |-> IF pressA.first # "none" THEN pressA.first
                                           ELSE IF m5A THEN "held" ELSE "edge"]
                           ELSE pressA
              /\ IF refreshData
                 THEN /\ lastDraw' = StampLastDraw(n, lastDraw)
                      /\ millis' = n
                      /\ pc' = "drawScreen"
                      /\ sinceRefresh' = 0
                      /\ cycle' = NoCycle
                 ELSE /\ lastDraw' = lastDraw
                      /\ millis' = Add32(n, U32(IdleDelayMs))
                      /\ pc' = "loop"
                      /\ sinceRefresh' = IF since < 0 THEN -1 ELSE since + IdleDelayMs
                      /\ cycle' = cycle
    /\ ticks' = ticks + 1
    /\ UNCHANGED <<hardwareStarted, found, stock, doc, btnA, btnB, topBar, mainArea, metar,
                   seaLevel, fetch>>

(***************************************************************************)
(* drawScreen(): the sensors, fetchQNH, the altitude, drawTopBar.          *)
(***************************************************************************)
\* Mutant of AltitudeDue: the altitude is computed in every cycle.
AltitudeDueAlways(qmpOk, pressHpa) == TRUE

\* Mutant of AltitudeDue: pressHpa is not tested.
AltitudeDueUpdated(qmpOk, pressHpa) == qmpOk

\* qmp.update() succeeded and !isnan(pressHpa) && pressHpa > 0
AltitudeDue(qmpOk, pressHpa) == qmpOk /\ ~isnan(pressHpa) /\ pressHpa.v > 0

DrawScreenAt(shts, qmps, metars) ==
    /\ pc = "drawScreen"
    /\ \E sht \in shts, qmp \in qmps, r \in metars \cup {NoMetar} :
          LET tempC == IF sht.ok THEN F(sht.t) ELSE NAN
              hum == IF sht.ok THEN F(sht.h) ELSE NAN
              pressHpa == IF qmp.ok /\ qmp.pa > 0 THEN F(qmp.pa) ELSE NAN
              fetches == AltitudeDue(qmp.ok, pressHpa)
              sea == fetchQNH(r)
              altitude == IF fetches THEN Altitude(pressHpa, sea) ELSE NAN
          IN  /\ (fetches => r \in metars)
              /\ (~fetches => r = NoMetar)
              /\ metar' = r
              /\ seaLevel' = IF fetches THEN sea ELSE Unset
              /\ topBar' = drawTopBar(tempC, hum, pressHpa, altitude)
              /\ cycle' = [cycle EXCEPT !.qnh = fetches, !.top = TRUE, !.qmp = qmp]
    /\ pc' = "drawClock"
    /\ UNCHANGED <<hardwareStarted, found, millis, now, lastDraw, settingStock, stock, doc,
                   btnA, btnB, m5A, m5B, mainArea, tick, fetch, pressA, ticks,
                   sinceRefresh>>

(***************************************************************************)
(* drawClockAndDate(): getStockPrice(symbol), then the main area.          *)
(***************************************************************************)
\* Mutant of QuoteToDraw: the texts are formatted before getStockPrice.
QuoteToDrawStale(before, after) == before

\* snprintf reads the global stock after getStockPrice(symbol) has returned.
QuoteToDraw(before, after) == after

\* Mutant of AfterGetStockPrice: a failed fetch spins like initENV does.
AfterGetStockPriceHalts(ok) == IF ok THEN "loop" ELSE "halted"

\* if (!getStockPrice(symbol)) { Serial.println(...); }: the failure is
\* logged and drawClockAndDate goes on to draw and to return to loop().
AfterGetStockPrice(ok) == "loop"

DrawClockAndDateAt(responses) ==
    /\ pc = "drawClock"
    /\ \E r \in responses :
          LET symbol == SymbolOf(settingStock)
              g == getStockPrice(stock, doc, symbol, r)
          IN  /\ stock' = g.stock
              /\ doc' = g.doc
              /\ fetch' = [ok |-> g.ok, symbol |-> symbol, why |-> Outcome(r),
                           kind |-> IF Outcome(r) \in {"ok", "parse"} THEN r.payload.kind ELSE "",
                           present |-> Outcome(r) = "ok" /\ r.payload.d[symbol].present]
              /\ \E label \in LabelOutcomes(symbol) : mainArea' = drawMain(label, QuoteToDraw(stock, g.stock))
              /\ cycle' = [cycle EXCEPT !.quote = TRUE, !.main = TRUE]
              /\ pc' = AfterGetStockPrice(g.ok)
    /\ UNCHANGED <<hardwareStarted, found, millis, now, lastDraw, settingStock, btnA, btnB,
                   m5A, m5B, topBar, metar, seaLevel, tick, pressA, ticks,
                   sinceRefresh>>

(***************************************************************************)
(* The user: the physical buttons change level at any point of the loop,   *)
(* also inside a blocking refresh cycle.  The levels are followed from the *)
(* first M5.update() of loop() on.                                         *)
(***************************************************************************)
Running == pc \in {"loop", "drawScreen", "drawClock"} /\ ticks > 0

PressA ==
    /\ Running /\ ~btnA
    /\ btnA' = TRUE
    /\ pressA' = NoPress
    /\ UNCHANGED <<pc, hardwareStarted, found, millis, now, lastDraw, settingStock, stock, doc,
                   btnB, m5A, m5B, topBar, mainArea, metar, seaLevel, tick, fetch,
                   cycle, ticks, sinceRefresh>>

ReleaseA ==
    /\ Running /\ btnA
    /\ btnA' = FALSE
    /\ pressA' = NoPress
    /\ UNCHANGED <<pc, hardwareStarted, found, millis, now, lastDraw, settingStock, stock, doc,
                   btnB, m5A, m5B, topBar, mainArea, metar, seaLevel, tick, fetch,
                   cycle, ticks, sinceRefresh>>

PressB ==
    /\ Running /\ ~btnB
    /\ btnB' = TRUE
    /\ UNCHANGED <<pc, hardwareStarted, found, millis, now, lastDraw, settingStock, stock, doc,
                   btnA, m5A, m5B, topBar, mainArea, metar, seaLevel, tick, fetch,
                   cycle, pressA, ticks, sinceRefresh>>

ReleaseB ==
    /\ Running /\ btnB
    /\ btnB' = FALSE
    /\ UNCHANGED <<pc, hardwareStarted, found, millis, now, lastDraw, settingStock, stock, doc,
                   btnA, m5A, m5B, topBar, mainArea, metar, seaLevel, tick, fetch,
                   cycle, pressA, ticks, sinceRefresh>>

(***************************************************************************)
(* Spec: the program with every quote response and failing or working      *)
(* sensors, under a normal start, coarse time steps and button B left      *)
(* alone.                                                                  *)
(***************************************************************************)
Setup == SetupAt({BootNormal})
LoopPoll == LoopPollAt(CoarseDeltas)
DrawScreen == DrawScreenAt(ShtOutcomes, QmpOutcomes,
                           {[wifi |-> TRUE, code |-> HTTP_CODE_OK, body |-> MetarOk]})
DrawClockAndDate == DrawClockAndDateAt(QuoteResponses)

Next ==
    \/ Setup
    \/ LoopPoll
    \/ DrawScreen
    \/ DrawClockAndDate
    \/ PressA
    \/ ReleaseA

Spec == Init /\ [][Next]_vars

(***************************************************************************)
(* SpecTimer: every start time, millisecond-fine time steps and both       *)
(* buttons, with a temperature sensor that fails, no network for fetchQNH  *)
(* and a quote feed that is down or returns one of two documents.          *)
(***************************************************************************)
SetupTimer == SetupAt(BootTimes)
LoopPollTimer == LoopPollAt(Deltas)
DrawScreenTimer == DrawScreenAt({[ok |-> FALSE, t |-> 0, h |-> 0]}, {[ok |-> TRUE, pa |-> 90000]},
                                {NoMetar})
DrawClockAndDateTimer ==
    DrawClockAndDateAt({WifiDown}
                       \cup {[wifi |-> TRUE, begin |-> TRUE, code |-> HTTP_CODE_OK,
                              payload |-> [kind |-> "object", d |-> d]] :
                                d \in {EmptyDoc, DocFull(1)}})

NextTimer ==
    \/ SetupTimer
    \/ LoopPollTimer
    \/ DrawScreenTimer
    \/ DrawClockAndDateTimer
    \/ PressA
    \/ ReleaseA
    \/ PressB
    \/ ReleaseB

SpecTimer == Init /\ [][NextTimer]_vars

(***************************************************************************)
(* SpecLive: the loop under its scheduling.  The Arduino core calls loop() *)
(* again whenever it returns and every blocking call is taken to return,   *)
(* so each step of the program is weakly fair.  Sensors, METAR and quote   *)
(* feed fail in every combination; the buttons are left alone.  A tick     *)
(* that does not refresh advances the clock by IdleDelayMs at least: the   *)
(* time steps are taken so long that the interval runs out within two      *)
(* ticks.                                                                  *)
(***************************************************************************)
LiveDeltas == {44900, 45000}

SetupLive == SetupAt({BootNormal})
LoopPollLive == LoopPollAt(LiveDeltas)
DrawScreenLive ==
    DrawScreenAt(ShtOutcomes, {NoSample, [ok |-> TRUE, pa |-> 90000]},
                 {NoMetar, [wifi |-> TRUE, code |-> 404, body |-> MetarOk]})
DrawClockAndDateLive ==
    DrawClockAndDateAt({r \in QuoteResponses :
                           Outcome(r) # "ok" \/ r.payload.d = DocFull(1)})

NextLive ==
    \/ SetupLive
    \/ LoopPollLive
    \/ DrawScreenLive
    \/ DrawClockAndDateLive

SpecLive ==
    /\ Init /\ [][NextLive]_vars
    /\ WF_vars(SetupLive) /\ WF_vars(LoopPollLive)
    /\ WF_vars(DrawScreenLive) /\ WF_vars(DrawClockAndDateLive)

(***************************************************************************)
(* SpecSensors: every sensor outcome (a pressure of 0 and a negative one    *)
(* included) against every METAR response, with timer and button B          *)
(* refreshes and a quote feed that is down or returns one document.         *)
(***************************************************************************)
SensorQmps == QmpOutcomes \cup {[ok |-> TRUE, pa |-> -500]}

SetupSensors == SetupAt({BootNormal})
LoopPollSensors == LoopPollAt(CoarseDeltas)
DrawScreenSensors == DrawScreenAt(ShtOutcomes, SensorQmps, MetarResponses)
DrawClockAndDateSensors ==
    DrawClockAndDateAt({WifiDown,
                        [wifi |-> TRUE, begin |-> TRUE, code |-> HTTP_CODE_OK,
                         payload |-> [kind |-> "object", d |-> DocFull(1)]]})

NextSensors ==
    \/ SetupSensors
    \/ LoopPollSensors
    \/ DrawScreenSensors
    \/ DrawClockAndDateSensors
    \/ PressB
    \/ ReleaseB

SpecSensors == Init /\ [][NextSensors]_vars

(***************************************************************************)
(* SpecQNH: fetchQNH alone, applied to every response whose body is a      *)
(* string of at most MaxBodyLen characters of QnhAlphabet.                 *)
(***************************************************************************)
QnhAlphabet == {" ", "\n", "Q", "1", "A"}
QnhBodies == UNION {[1..n -> QnhAlphabet] : n \in 0..MaxBodyLen}
QnhInputs ==
    {[wifi |-> TRUE, code |-> HTTP_CODE_OK, body |-> b] : b \in QnhBodies}
    \cup {[wifi |-> w, code |-> c, body |-> b] :
            w \in BOOLEAN, c \in {-1, 404, HTTP_CODE_OK},
            b \in {<<>>, <<"A", " ", "Q", "1", "1", "1", "1">>}}

InitQNH ==
    /\ pc = "fetchQNH"
    /\ metar \in QnhInputs
    /\ hardwareStarted = FALSE
    /\ found = NotBegun
    /\ millis = <<0, 0>>
    /\ now = <<0, 0>>
    /\ lastDraw = InitLastDraw
    /\ settingStock = FALSE
    /\ stock = StockSet("")
    /\ doc = EmptyDoc
    /\ btnA = FALSE /\ btnB = FALSE
    /\ m5A = FALSE /\ m5B = FALSE
    /\ topBar = [temp |-> NoText, hum |-> NoText, press |-> NoText, alt |-> NoText]
    /\ mainArea = [label |-> "", last |-> NoText, bid |-> NoText, ask |-> NoText, color |-> ""]
    /\ seaLevel = Unset
    /\ tick = NoTick
    /\ fetch = NoFetch
    /\ cycle = NoCycle
    /\ pressA = NoPress
    /\ ticks = 0
    /\ sinceRefresh = -1

FetchQNHCall ==
    /\ pc = "fetchQNH"
    /\ seaLevel' = fetchQNH(metar)
    /\ pc' = "fetchQNH.done"
    /\ UNCHANGED <<hardwareStarted, found, millis, now, lastDraw, settingStock, stock, doc,
                   btnA, btnB, m5A, m5B, topBar, mainArea, metar, tick, fetch, cycle,
                   pressA, ticks, sinceRefresh>>

NextQNH == FetchQNHCall

SpecQNH == InitQNH /\ [][NextQNH]_vars

(***************************************************************************)
(* Properties.                                                             *)
(***************************************************************************)
NoEdge == ~tick.a /\ ~tick.b
OtherSymbol(sym) == IF sym = "NVDA" THEN "ASTS" ELSE "NVDA"
CycleDone == pc = "loop" /\ cycle.main

\* C1: on every tick, a refresh cycle is executed if and only if
\* now - lastRefresh >= 45000 ms or a button A edge or a button B edge is
\* seen on that tick; without edges an elapsed time of 44999 ms does not
\* refresh and one of 45000 ms does.
C1_RefreshIffDue ==
    ticks > 0 =>
        /\ tick.refresh <=> (Ge32(tick.elapsed, U32(45000)) \/ tick.a \/ tick.b)
        /\ (NoEdge /\ tick.elapsed = U32(44999)) => ~tick.refresh
        /\ (NoEdge /\ tick.elapsed = U32(45000)) => tick.refresh
        /\ ~tick.refresh => pc = "loop"
        /\ tick.refresh => (pc \in {"drawScreen", "drawClock"} \/ CycleDone)

\* C1 witness: a tick without edges exactly 45000 ms after the previous
\* refresh has started a refresh cycle.
C1_Witness ==
    /\ pc = "drawScreen" /\ NoEdge /\ tick.refresh
    /\ tick.elapsed = U32(45000) /\ tick.since = 45000

\* C2: a failed quote fetch (network unreachable, request setup failure,
\* non-OK status) leaves every field of the stored quote as it was; a
\* successful fetch sets every field from the document of that fetch.
C2_FailedFetchKeepsQuote ==
    [][(pc = "drawClock" /\ pc' = "loop") =>
          /\ fetch'.why \in {"wifi", "begin", "http"} => (~fetch'.ok /\ stock' = stock)
          /\ fetch'.ok =>
                stock' = [symbol |-> fetch'.symbol,
                          last |-> AsFloat(doc'[fetch'.symbol].last),
                          bid |-> AsFloat(doc'[fetch'.symbol].bid),
                          ask |-> AsFloat(doc'[fetch'.symbol].ask),
                          volume |-> AsFloat(doc'[fetch'.symbol].volume),
                          lastTradeTime |-> AsString(doc'[fetch'.symbol].lastTradeTime),
                          deltaIndicator |-> AsString(doc'[fetch'.symbol].deltaIndicator)]]_vars

\* C2 witness: a fetch has failed on a non-OK status while the stored quote
\* held the values of an earlier successful fetch.
C2_Witness ==
    /\ CycleDone /\ fetch.why = "http" /\ ~fetch.ok
    /\ stock.symbol # "" /\ stock.last.k = "num" /\ stock.last.v > 0

\* C3: with an OK status, a body that is no JSON object or an object
\* without the requested symbol makes the fetch report failure and leaves
\* the stored quote untouched.
C3_UnusableBodyFails ==
    [][(/\ pc = "drawClock" /\ pc' = "loop"
        /\ fetch'.why \in {"ok", "parse"}
        /\ (fetch'.kind # "object" \/ ~fetch'.present))
       => (~fetch'.ok /\ stock' = stock)]_vars

RenderedTexts ==
    {topBar.temp, topBar.hum, topBar.press, topBar.alt,
     mainArea.last, mainArea.bid, mainArea.ask}

\* C4: no rendered field shows a not-a-number literally; after a refresh
\* cycle, last, bid and ask of a quote that holds NaN are drawn as "--".
C4_NoNanRendered ==
    /\ \A x \in RenderedTexts : x.t # "nan"
    /\ CycleDone =>
          /\ isnan(stock.last) => mainArea.last = Placeholder
          /\ isnan(stock.bid) => mainArea.bid = Placeholder
          /\ isnan(stock.ask) => mainArea.ask = Placeholder

\* C5 as claimed: every physical press of button A, however long and
\* wherever it falls, has toggled the symbol exactly once when it ends.
C5_ExactlyOncePerPress ==
    [][(btnA /\ ~btnA') => pressA.toggles = 1]_vars

\* C5 amended: a press toggles the symbol at most once: once when the first
\* M5.update() that samples it pressed follows one that sampled the button
\* released, and not at all otherwise.
C5_AtMostOncePerPress ==
    [][(btnA /\ ~btnA') =>
          pressA.toggles = (IF pressA.first = "edge" THEN 1 ELSE 0)]_vars

\* C5 witness: button A is held over a later tick after the tick that saw
\* its edge, and has toggled the symbol once.
C5_Witness ==
    /\ btnA /\ m5A /\ pressA.toggles = 1 /\ pressA.first = "edge"
    /\ ticks > 0 /\ ~tick.a

\* C6: a tick with a button A edge toggles the symbol before the refresh,
\* whose quote fetch requests the new symbol; nothing else changes the
\* symbol (no B edge, timer refresh or fetch outcome).
C6_ToggleBeforeFetch ==
    ticks > 0 =>
        /\ SymbolOf(settingStock) = (IF tick.a THEN OtherSymbol(tick.from) ELSE tick.from)
        /\ tick.a => tick.refresh
        /\ cycle.quote => fetch.symbol = SymbolOf(settingStock)

\* C6 witness: a tick with an A edge switched NVDA to ASTS and the fetch of
\* its refresh cycle has asked for ASTS.
C6_Witness ==
    /\ CycleDone /\ tick.a /\ tick.from = "NVDA"
    /\ fetch.symbol = "ASTS" /\ settingStock

\* C7: after a refresh cycle whose quote fetch succeeded, the stored
\* quote's symbol is the selected symbol.
C7_QuoteSymbolIsSelected ==
    (cycle.quote /\ fetch.ok) => stock.symbol = SymbolOf(settingStock)

\* C7 witness: after a toggle to ASTS a fetch has succeeded.
C7_Witness ==
    CycleDone /\ fetch.ok /\ settingStock /\ stock.symbol = "ASTS"

\* C8: every refresh sets lastRefresh to the tick's now, whatever the
\* fetches do, so a tick without a button edge refreshes only when at
\* least 45000 ms have passed since the previous refresh.
C8_RefreshStampsLastDraw ==
    ticks > 0 =>
        /\ tick.refresh => lastDraw = now
        /\ (tick.refresh /\ NoEdge /\ tick.since >= 0) => tick.since >= 45000
        /\ (~tick.refresh /\ tick.since >= 0) => tick.since < 45000

\* C8 witness: after a cycle whose quote fetch failed, a tick without edges
\* less than 45000 ms later has not refreshed.
C8_Witness ==
    /\ pc = "loop" /\ ~tick.refresh /\ NoEdge /\ ~fetch.ok /\ cycle.main
    /\ tick.since >= 0 /\ tick.since < 45000

FirstTick == ticks = 1
WrapZone == Ge32(now, Neg32(DRAW_INTERVAL_MS))

QnhToken(body, p) ==
    /\ body[p] = "Q"
    /\ p + 4 <= Len(body)
    /\ \A j \in 1..4 : IsDigit(body[p + j])
    /\ (p + 5 <= Len(body)) => ~IsDigit(body[p + 5])
    /\ (p = 1 \/ body[p - 1] \in {" ", "\n"})

QnhTokenValue(body, p) ==
    F(100 * (1000 * DigitVal(body[p + 1]) + 100 * DigitVal(body[p + 2])
             + 10 * DigitVal(body[p + 3]) + DigitVal(body[p + 4])))

\* C10: fetchSeaLevelPressure returns the value of a Q#### token of the
\* body or the fallback 1013.25, and the fallback whenever the network is
\* down, the status is not OK or the body holds no such token.
C10_TokenOrFallback ==
    pc = "fetchQNH.done" =>
        LET toks == {p \in 1..Len(metar.body) : QnhToken(metar.body, p)}
        IN  /\ \/ seaLevel = F(SEA_LEVEL_HPA)
               \/ \E p \in toks : seaLevel = QnhTokenValue(metar.body, p)
            /\ (~metar.wifi \/ metar.code # HTTP_CODE_OK \/ toks = {})
                  => seaLevel = F(SEA_LEVEL_HPA)

\* C11: no steady-state error stops the loop: whatever the sensors, the
\* network, the HTTP status and the parser do, a refresh cycle that has
\* started draws the main area and returns to polling, and from polling
\* (with two ticks left in the bounded run) a later refresh cycle starts.
C11_LoopSurvivesErrors ==
    /\ (pc = "drawScreen") ~> CycleDone
    /\ (pc = "loop" /\ ticks + 1 < MaxTicks) ~> (pc = "drawScreen")

\* C11 witness: a timer refresh 45000 ms or more after an earlier one has
\* completed although no quote fetch ever succeeded and both sensors failed
\* in it.
C11_Witness ==
    /\ CycleDone /\ tick.since >= 45000 /\ ~fetch.ok /\ stock.symbol = ""
    /\ topBar.temp = Placeholder /\ topBar.press = Placeholder

PressureRead == cycle.qmp.ok /\ cycle.qmp.pa > 0

\* C12: in every refresh cycle whose pressure reading is absent or <= 0 the
\* altitude is drawn as the placeholder and no reference pressure enters
\* it; an altitude is computed only from a sample with pressure > 0.
C12_NoPressureNoAltitude ==
    cycle.top =>
        /\ ~PressureRead => (topBar.alt = Placeholder /\ seaLevel = Unset)
        /\ topBar.alt # Placeholder => (PressureRead /\ topBar.press.v = cycle.qmp.pa)

\* C12 witness: the sensor delivered a sample with pressure 0 and the top
\* bar shows the placeholder for pressure and altitude.
C12_Witness ==
    /\ cycle.top /\ cycle.qmp.ok /\ cycle.qmp.pa = 0
    /\ topBar.alt = Placeholder /\ topBar.press = Placeholder

\* C15 as claimed: every refresh cycle fetches the reference pressure,
\* whatever the sensors delivered.
C15_FetchInEveryCycle ==
    cycle.top => cycle.qnh

\* C15 amended: a refresh cycle fetches the reference pressure exactly when
\* the pressure sensor delivered a sample with pressure > 0, whatever the
\* temperature sensor did and whatever triggered the cycle; the altitude
\* drawn comes from the response of that same cycle.
C15_FetchIffPressureRead ==
    cycle.top =>
        /\ cycle.qnh <=> PressureRead
        /\ cycle.qnh =>
              /\ seaLevel = fetchQNH(metar)
              /\ topBar.alt = TopField(Altitude(F(cycle.qmp.pa), seaLevel), 0)
        /\ ~cycle.qnh => seaLevel = Unset

\* C15 witness: a button B refresh, after an earlier cycle, whose fetch
\* found the network down: the altitude is drawn from the fallback, and the
\* temperature sensor failed in it.
C15_Witness ==
    /\ CycleDone /\ tick.b /\ tick.since >= 0 /\ cycle.qnh
    /\ metar = NoMetar /\ seaLevel = F(SEA_LEVEL_HPA)
    /\ topBar.temp = Placeholder
    /\ topBar.alt = TopField(Altitude(F(cycle.qmp.pa), F(SEA_LEVEL_HPA)), 0)

NothingDrawn ==
    /\ topBar = [temp |-> NoText, hum |-> NoText, press |-> NoText, alt |-> NoText]
    /\ mainArea = [label |-> "", last |-> NoText, bid |-> NoText, ask |-> NoText,
                   color |-> ""]

\* C13: when the pressure sensor or the temperature/humidity sensor is not
\* detected in setup(), startup halts: hardwareStarted stays false and no
\* tick, sensor sample, fetch or render ever happens.
C13_MissingSensorHalts ==
    (pc # "setup" /\ ~(found.qmp /\ found.sht)) =>
        /\ pc = "halted" /\ ~hardwareStarted
        /\ ticks = 0 /\ tick = NoTick /\ cycle = NoCycle
        /\ fetch = NoFetch /\ stock = StockSet("")
        /\ metar = NoMetar /\ seaLevel = Unset
        /\ NothingDrawn

\* C13 witness: the pressure sensor was found, the temperature/humidity
\* sensor was not, and startup has halted.
C13_Witness ==
    pc = "halted" /\ found.qmp /\ ~found.sht /\ ~hardwareStarted

C16_IdleTickChangesNothing ==
    [][(/\ pc = "loop" /\ ticks' = ticks + 1
        /\ ~(btnA /\ ~m5A) /\ ~(btnB /\ ~m5B)
        /\ ~Ge32(Sub32(now', lastDraw), DRAW_INTERVAL_MS))
       => (/\ pc' = "loop" /\ ~tick'.refresh /\ tick'.tones = {}
           /\ UNCHANGED <<settingStock, stock, doc, lastDraw, topBar, mainArea,
                          metar, seaLevel, fetch, cycle>>
           /\ millis' = Add32(now', U32(IdleDelayMs)))]_vars

\* C16 witness: after a completed cycle, a tick with button A still held
\* from the tick before and the interval not run out has only idled.
C16_Witness ==
    /\ pc = "loop" /\ ~tick.refresh /\ btnA /\ m5A /\ cycle.main
    /\ tick.since >= 0 /\ tick.since < 45000
    /\ millis = Add32(now, U32(IdleDelayMs))

\* C17: whenever the main area has been rendered, the bid/ask line is
\* green if and only if the stored quote's deltaIndicator is "up" and red
\* for every other value ("down", another string, the "null" of a missing
\* field, the empty default); there is no third colour.
C17_GreenIffUp ==
    mainArea.label # "" =>
        /\ mainArea.color \in {"GREEN", "RED"}
        /\ mainArea.color = "GREEN" <=> stock.deltaIndicator = "up"

\* C17 witness: a successful fetch stored a deltaIndicator that is neither
\* "up" nor "down", and the line is red.
C17_Witness ==
    /\ CycleDone /\ fetch.ok /\ stock.deltaIndicator = "unchanged"
    /\ mainArea.color = "RED"

RolledOver == tick.elapsed # <<0, 0>> /\ ~Ge32(now, Sub32(now, tick.elapsed))

\* C19: on every tick after a refresh, now - lastRefresh in uint32_t is the
\* true time since that refresh, also when the counter rolled over in
\* between, and the timer makes a refresh due exactly when that time is
\* 45000 ms or more.
C19_DueAcrossRollover ==
    (ticks > 0 /\ tick.since >= 0) =>
        /\ tick.elapsed = U32(tick.since)
        /\ Ge32(tick.elapsed, DRAW_INTERVAL_MS) <=> tick.since >= 45000
        /\ NoEdge => (tick.refresh <=> tick.since >= 45000)

\* C19 witness: a timer refresh on a tick after the rollover, for a
\* lastRefresh stamped before it.
C19_Witness ==
    /\ ticks > 0 /\ tick.since >= 45000 /\ NoEdge /\ tick.refresh
    /\ RolledOver

\* C20: a tick toggles the symbol once if button A fired and not at all
\* otherwise, requests tone A iff A fired and tone B iff B fired, and, if
\* any of the three triggers holds, stamps lastRefresh once and starts one
\* pipeline run; until the next tick nothing toggles or stamps again and
\* each stage of the pipeline runs once.
C20_OneCyclePerTick ==
    [][/\ (ticks' = ticks + 1) =>
            LET edgeA == btnA /\ ~m5A
                edgeB == btnB /\ ~m5B
                due == Ge32(Sub32(now', lastDraw), DRAW_INTERVAL_MS)
            IN  /\ settingStock' = (IF edgeA THEN ~settingStock ELSE settingStock)
                /\ tick'.tones = (IF edgeA THEN {BEEP_NOTE_A} ELSE {})
                                  \cup (IF edgeB THEN {BEEP_NOTE_B} ELSE {})
                /\ (edgeA \/ edgeB \/ due) =>
                      (pc' = "drawScreen" /\ lastDraw' = now' /\ cycle' = NoCycle)
       /\ (ticks' = ticks) => (lastDraw' = lastDraw /\ settingStock' = settingStock)
       /\ (pc = "drawScreen" /\ pc' # pc) =>
             (~cycle.top /\ cycle'.top /\ pc' = "drawClock")
       /\ (pc = "drawClock" /\ pc' # pc) =>
             (~cycle.main /\ cycle'.main /\ pc' = "loop")]_vars

\* C20 witness: on one tick the interval had run out and both buttons
\* fired; the symbol went from NVDA to ASTS, both tones were requested and
\* the one cycle of that tick is complete.
C20_Witness ==
    /\ CycleDone /\ tick.a /\ tick.b /\ Ge32(tick.elapsed, DRAW_INTERVAL_MS)
    /\ tick.tones = {BEEP_NOTE_A, BEEP_NOTE_B}
    /\ tick.from = "NVDA" /\ settingStock /\ lastDraw = now

====
